---- MODULE Spec2Model ----
(***************************************************************************)
(* scpi-core: the transports (TcpTransport, SerialTransport) and the       *)
(* ScpiDevice facade, as a state machine.                                  *)
(*                                                                         *)
(* Bytes and characters are named symbols: "a" is a printable ASCII        *)
(* letter, "SP" a space, "LF" a newline, "CR" a carriage return; "HI" is   *)
(* a byte >= 0x80, "RC" the replacement character U+FFFD it decodes to and *)
(* "U" a non-ASCII character.  A timeout value is one of the names in      *)
(* Timeouts; "None" is Python's None.  An I/O event "fault" is the         *)
(* medium's own exception: OSError on a socket, serial.SerialException on  *)
(* a serial port.                                                          *)
(***************************************************************************)
EXTENDS Integers, Sequences, FiniteSets, TLC

\* ---------------------------------------------------------------- bounds

\* The most unread bytes the medium holds.
MaxRx == 3

\* The largest count passed to receive_raw.
MaxCount == 2

\* The longest text handed to send as a command.
MaxText == 2

\* The longest response a typed query is given to parse.
MaxResp == 3

\* ------------------------------------------------------ program constants

\* transport.py:158  self._socket.recv(4096)
RecvLineChunk == 4096

\* transport.py:169  min(count - len(buf), 65536)
RecvRawChunk == 65536

\* ---------------------------------------------------------------- alphabet

Bytes == {"a", "SP", "LF"}

Timeouts == {"t1", "t2"}

\* The timeout argument of receive / receive_raw / query.
Overrides == {"None", "t2"}

Kinds == {"tcp", "serial"}

\* Terminators a SerialTransport is configured with in the model.
Terminators == {<<"LF">>, <<"CR">>}

\* Commands handed to send / command / query.
Cmds == {<<"a">>, <<"a", "LF">>}

\* What the instrument answers to a query.
Replies == {<<>>, <<"a", "LF">>}

\* Byte strings handed to send_raw.
RawPayloads == {<<"a">>, <<"HI", "LF">>}

\* Characters of the texts handed to send.
TextChars == {"a", "LF", "CR", "U"}

\* Terminators a SerialTransport is given where send's framing is examined.
SendTerminators == Terminators \cup {<<"CR", "LF">>}

\* str.strip() with no argument strips these.
Whitespace == {"SP", "LF", "CR"}

\* ------------------------------------------------------------ pure helpers

Min(a, b) == IF a <= b THEN a ELSE b

\* The strings over S of length at most n.
SeqsUpTo(S, n) == UNION {[1..k -> S] : k \in 0..n}

\* bytes.decode("ascii", errors="replace"), one byte
DecodeByte(b) == IF b = "HI" THEN "RC" ELSE b

Decode(bs) == [i \in 1..Len(bs) |-> DecodeByte(bs[i])]

\* str.encode("ascii"): defined on ASCII text only
IsAscii(s) == \A i \in 1..Len(s) : s[i] \notin {"U", "RC"}

\* str.encode("ascii") of ASCII text: each character's own byte
Encode(s) == [i \in 1..Len(s) |-> s[i]]

\* str.endswith
EndsWith(s, suf) ==
    /\ Len(suf) <= Len(s)
    /\ SubSeq(s, Len(s) - Len(suf) + 1, Len(s)) = suf

\* b"\n" in buf
HasNewline(bs) == \E i \in 1..Len(bs) : bs[i] = "LF"

\* index of the first newline of bs, or 0
FirstNewline(bs) ==
    IF HasNewline(bs)
    THEN CHOOSE i \in 1..Len(bs) :
            /\ bs[i] = "LF"
            /\ \A j \in 1..(i - 1) : bs[j] # "LF"
    ELSE 0

\* str.strip(): leading and trailing whitespace removed
Strip(s) ==
    LET keep == {i \in 1..Len(s) : s[i] \notin Whitespace}
    IN  IF keep = {} THEN <<>>
        ELSE LET lo == CHOOSE i \in keep : \A j \in keep : i <= j
                 hi == CHOOSE i \in keep : \A j \in keep : j <= i
             IN  SubSeq(s, lo, hi)

\* ------------------------------------------------------------------ state

VARIABLES
    tp,     \* the transport object: kind, terminator, _timeout, _socket/_serial
    med,    \* the open medium (socket / serial.Serial) the handle refers to
    dev,    \* the caller's position in a with-block over the ScpiDevice
    last,   \* what the most recent call was given, saw and returned
    sh,     \* callers sharing the transport: where each is in query(), the
            \* commands the instrument has yet to answer, and the lines it
            \* has written that no receive has returned yet
    tq      \* a typed query on the device: its arguments and its outcome

vars == <<tp, med, dev, last, sh, tq>>

\* The callers that share one transport; each calls query() once.
Callers == {1, 2}

\* No caller is inside query().
NoShared ==
    [pc |-> [c \in Callers |-> "idle"], tx |-> <<>>,
     got |-> [c \in Callers |-> <<>>], failed |-> FALSE, owed |-> <<>>]

\* What a typed query produced: the error raised ("none": it returned), the
\* command it sent, the value returned (None, a bool, a number as digits and
\* scale, or text), and for a protocol error the words of its message.
NoOutcome ==
    [err |-> "none", sent |-> <<>>, isNone |-> FALSE, flag |-> FALSE, num |-> 0,
     scale |-> 0, text |-> <<>>, msgKind |-> "none", msgCmd |-> <<>>,
     msgText |-> <<>>]

\* No typed query is in hand.
NoTyped ==
    [phase |-> "idle", op |-> "none", cmd |-> <<>>,
     q |-> [err |-> "none", val |-> <<>>], out |-> NoOutcome]

\* No transport object has been constructed.
NoTransport == [kind |-> "none", terminator |-> <<>>, timeout |-> "t1", sock |-> "None"]

\* No medium object: the handle is None.
NoMedium == [is_open |-> FALSE, timeout |-> "None", rx |-> <<>>, peerClosed |-> FALSE]

\* socket.socket() + settimeout + connect, or serial.Serial(port, baudrate, timeout)
NewMedium(timeout) ==
    [is_open |-> TRUE, timeout |-> timeout, rx |-> <<>>, peerClosed |-> FALSE]

\* The outcome of one call: the objects after it, the error raised ("none": it
\* returned), the value returned, the bytes written, whether a medium was opened,
\* the bytes taken from the medium, for a timeout error whether its message
\* reports the number of bytes obtained, and that number, and the I/O event that
\* made the call fail.
Res(t, m) ==
    [tp |-> t, med |-> m, err |-> "none", val |-> <<>>, wrote |-> <<>>,
     opened |-> FALSE, consumed |-> 0, reportsGot |-> FALSE, got |-> 0,
     io |-> "none"]

\* An error raised before any I/O.
Raise(t, m, e) == [Res(t, m) EXCEPT !.err = e]

\* An error raised because the medium's I/O ended with event io.
Fail(t, m, e, io) == [Res(t, m) EXCEPT !.err = e, !.io = io]

\* ---------------------------------------------------------- the medium

\* The cuts of a stream are the places where the bytes after them had not yet
\* arrived when the bytes before them were read: a read at position pos sees the
\* bytes up to the next cut.
NextCut(cuts, pos, len) ==
    LET later == {c \in cuts : c > pos /\ c < len}
    IN  IF later = {} THEN len ELSE CHOOSE c \in later : \A d \in later : c <= d

\* socket.recv(bufsize): at most bufsize of the bytes that have arrived
Recv(rx, cuts, pos, bufsize) ==
    SubSeq(rx, pos + 1, pos + Min(bufsize, NextCut(cuts, pos, Len(rx)) - pos))

\* How a read that finds no byte ends: the timeout elapses, the peer has closed
\* (a zero-length read), or the medium fails.
EndEvents(t, m) ==
    IF t.kind = "serial" THEN {"timeout", "fault"}
    ELSE IF m.peerClosed THEN {"eof", "fault"} ELSE {"timeout", "fault"}

\* How a write ends.  A serial port is opened with no write timeout.
WriteEvents(t) ==
    IF t.kind = "serial" THEN {"ok", "fault"} ELSE {"ok", "timeout", "fault"}

\* How opening the medium ends.
OpenEvents(t) ==
    IF t.kind = "serial" THEN {"ok", "fault"} ELSE {"ok", "timeout", "fault"}

\* ---------------------------------------------------------- TcpTransport

\* TcpTransport(host, port, timeout): the handle starts as None and send
\* frames with a newline.
TcpInit(t, m, to) ==
    Res([kind |-> "tcp", terminator |-> <<"LF">>, timeout |-> to, sock |-> "None"], m)

\* connect without its guard
ConnectGuardMissing(t) == FALSE

\* The guard of connect: already connected, nothing to do.
TcpConnectIsNoop(t) == t.sock # "None"

\* connect binding the handle before the socket is connected
TcpConnectBindsEarly(t, m, ev) ==
    IF t.sock # "None" THEN Res(t, m)
    ELSE IF ev = "ok"
         THEN [Res([t EXCEPT !.sock = "open"], NewMedium(t.timeout))
                  EXCEPT !.opened = TRUE]
         ELSE Fail([t EXCEPT !.sock = "open"], NewMedium(t.timeout),
                   "connection", ev)

TcpConnect(t, m, ev) ==
    IF TcpConnectIsNoop(t) THEN Res(t, m)
    ELSE IF ev = "ok"
         THEN [Res([t EXCEPT !.sock = "open"], NewMedium(t.timeout))
                  EXCEPT !.opened = TRUE]
         ELSE Fail(t, m, "connection", ev)

\* disconnect closing the socket and keeping the handle
TcpDisconnectKeepsHandle(t, m, ev) == Res(t, m)

TcpDisconnect(t, m, ev) ==
    IF t.sock # "None" THEN Res([t EXCEPT !.sock = "None"], NoMedium)
    ELSE Res(t, m)

TcpIsConnected(t, m) == t.sock # "None"

TcpSend(t, m, data, ev) ==
    IF t.sock = "None" THEN Raise(t, m, "connection")
    ELSE LET payload == IF EndsWith(data, <<"LF">>) THEN data ELSE data \o <<"LF">>
         IN  IF ~IsAscii(payload) THEN Raise(t, m, "unicode")
             ELSE CASE ev = "ok" -> [Res(t, m) EXCEPT !.wrote = Encode(payload)]
                    [] ev = "timeout" -> Fail(t, m, "timeout", ev)
                    [] OTHER -> Fail([t EXCEPT !.sock = "None"], NoMedium,
                                     "connection", ev)

TcpSendRaw(t, m, data, ev) ==
    IF t.sock = "None" THEN Raise(t, m, "connection")
    ELSE CASE ev = "ok" -> [Res(t, m) EXCEPT !.wrote = data]
           [] ev = "timeout" -> Fail(t, m, "timeout", ev)
           [] OTHER -> Fail([t EXCEPT !.sock = "None"], NoMedium, "connection", ev)

\* _read_until_newline: [status, buf, pos]; "blocked" when recv finds no byte
\* before a newline is in buf.
RECURSIVE ReadUntilNewlineLoop(_, _, _, _)
ReadUntilNewlineLoop(rx, cuts, pos, buf) ==
    IF pos >= Len(rx) THEN [status |-> "blocked", buf |-> buf, pos |-> pos]
    ELSE LET chunk == Recv(rx, cuts, pos, RecvLineChunk)
             buf2 == buf \o chunk
         IN  IF HasNewline(buf2)
             THEN [status |-> "done", buf |-> buf2, pos |-> pos + Len(chunk)]
             ELSE ReadUntilNewlineLoop(rx, cuts, pos + Len(chunk), buf2)

ReadUntilNewline(rx, cuts) == ReadUntilNewlineLoop(rx, cuts, 0, <<>>)

\* _read_bytes asking recv for a whole chunk whatever is still missing
ReadBytesChunkWhole(count, have) == RecvRawChunk

\* The size _read_bytes asks recv for, with have bytes collected so far.
ReadBytesChunk(count, have) == Min(count - have, RecvRawChunk)

\* _read_bytes
RECURSIVE ReadBytesLoop(_, _, _, _, _)
ReadBytesLoop(rx, cuts, pos, buf, count) ==
    IF ~(Len(buf) < count) THEN [status |-> "done", buf |-> buf, pos |-> pos]
    ELSE IF pos >= Len(rx) THEN [status |-> "blocked", buf |-> buf, pos |-> pos]
    ELSE LET chunk == Recv(rx, cuts, pos, ReadBytesChunk(count, Len(buf)))
         IN  ReadBytesLoop(rx, cuts, pos + Len(chunk), buf \o chunk, count)

ReadBytes(rx, cuts, count) == ReadBytesLoop(rx, cuts, 0, <<>>, count)

\* The timeout restored after the read instead of in a finally clause
RestoreTimeoutOnSuccess(r, override, prev) ==
    IF override # "None" /\ r.tp.sock # "None" /\ r.err = "none"
    THEN [r EXCEPT !.med.timeout = prev]
    ELSE r

\* The finally clause of receive / receive_raw (both transports).
RestoreTimeout(r, override, prev) ==
    IF override # "None" /\ r.tp.sock # "None"
    THEN [r EXCEPT !.med.timeout = prev]
    ELSE r

\* The override of the medium's timeout for one call (both transports).
ApplyOverride(m, override) ==
    IF override # "None" THEN [m EXCEPT !.timeout = override] ELSE m

\* What receive / receive_raw of TcpTransport do when the read loop ended:
\* rd is the loop's result, ev how a blocked recv ended.
\* A zero-length read raises ScpiConnectionError inside the try block; it is
\* no OSError, so no except clause of receive / receive_raw handles it.
TcpReadOutcome(t, m, rd, ev) ==
    LET m2 == [m EXCEPT !.rx = SubSeq(m.rx, rd.pos + 1, Len(m.rx))]
    IN  CASE rd.status = "done" -> [Res(t, m2) EXCEPT !.consumed = rd.pos]
          [] ev = "timeout" ->
                [Fail(t, m2, "timeout", ev) EXCEPT !.consumed = rd.pos]
          [] ev = "eof" ->
                [Fail(t, m2, "connection", ev) EXCEPT !.consumed = rd.pos]
          [] OTHER ->
                [Fail([t EXCEPT !.sock = "None"], NoMedium, "connection", ev)
                    EXCEPT !.consumed = rd.pos]

TcpReceive(t, m, override, cuts, ev) ==
    IF t.sock = "None" THEN Raise(t, m, "connection")
    ELSE LET prev == m.timeout
             m1 == ApplyOverride(m, override)
             rd == ReadUntilNewline(m1.rx, cuts)
             r == TcpReadOutcome(t, m1, rd, ev)
             body == IF r.err = "none"
                     THEN [r EXCEPT !.val = Strip(Decode(rd.buf))]
                     ELSE r
         IN  RestoreTimeout(body, override, prev)

TcpReceiveRaw(t, m, count, override, cuts, ev) ==
    IF t.sock = "None" THEN Raise(t, m, "connection")
    ELSE LET prev == m.timeout
             m1 == ApplyOverride(m, override)
             rd == ReadBytes(m1.rx, cuts, count)
             r == TcpReadOutcome(t, m1, rd, ev)
             body == IF r.err = "none" THEN [r EXCEPT !.val = rd.buf] ELSE r
         IN  RestoreTimeout(body, override, prev)

\* The timeout property's setter (both transports).
SetTimeout(t, m, value) ==
    Res([t EXCEPT !.timeout = value],
        IF t.sock # "None" THEN [m EXCEPT !.timeout = value] ELSE m)

\* --------------------------------------------------------- SerialTransport

\* the constructor without its check of the driver
SerialInitUnchecked(t, m, driver, to, term) ==
    Res([kind |-> "serial", terminator |-> term, timeout |-> to, sock |-> "None"], m)

\* SerialTransport(port, baudrate, timeout, terminator): driver tells whether
\* "import serial" succeeded; without it the constructor raises ImportError and
\* no object comes to exist.
SerialInit(t, m, driver, to, term) ==
    IF ~driver THEN Raise(t, m, "import")
    ELSE Res([kind |-> "serial", terminator |-> term, timeout |-> to,
              sock |-> "None"], m)

SerialConnectIsNoop(t) == t.sock # "None"

SerialConnect(t, m, ev) ==
    IF SerialConnectIsNoop(t) THEN Res(t, m)
    ELSE IF ev = "ok"
         THEN [Res([t EXCEPT !.sock = "open"], NewMedium(t.timeout))
                  EXCEPT !.opened = TRUE]
         ELSE Fail(t, m, "connection", ev)

\* disconnect closing the port and keeping the handle
SerialDisconnectKeepsHandle(t, m, ev) ==
    IF t.sock # "None" THEN Res(t, [m EXCEPT !.is_open = FALSE]) ELSE Res(t, m)

\* serial.Serial.close() leaves the port closed; a SerialException it raises is
\* passed over, and the handle is dropped either way.
SerialDisconnect(t, m, ev) ==
    IF t.sock # "None" THEN Res([t EXCEPT !.sock = "None"], NoMedium)
    ELSE Res(t, m)

SerialIsConnected(t, m) == t.sock # "None" /\ m.is_open

\* send appending the terminator to every text
SerialSendAlwaysAppends(t, m, data, ev) ==
    IF t.sock = "None" THEN Raise(t, m, "connection")
    ELSE LET payload == data \o t.terminator
         IN  IF ~IsAscii(payload) THEN Raise(t, m, "unicode")
             ELSE IF ev = "ok" THEN [Res(t, m) EXCEPT !.wrote = Encode(payload)]
             ELSE Fail(t, m, "connection", ev)

SerialSend(t, m, data, ev) ==
    IF t.sock = "None" THEN Raise(t, m, "connection")
    ELSE LET payload == IF EndsWith(data, t.terminator) THEN data
                        ELSE data \o t.terminator
         IN  IF ~IsAscii(payload) THEN Raise(t, m, "unicode")
             ELSE IF ev = "ok" THEN [Res(t, m) EXCEPT !.wrote = Encode(payload)]
             ELSE Fail(t, m, "connection", ev)

\* send_raw without its guard: the write is tried on the missing handle
SerialSendRawUnguarded(t, m, data, ev) ==
    IF t.sock = "None" THEN Raise(t, m, "attribute")
    ELSE IF ev = "ok" THEN [Res(t, m) EXCEPT !.wrote = data]
    ELSE Fail(t, m, "connection", ev)

SerialSendRaw(t, m, data, ev) ==
    IF t.sock = "None" THEN Raise(t, m, "connection")
    ELSE IF ev = "ok" THEN [Res(t, m) EXCEPT !.wrote = data]
    ELSE Fail(t, m, "connection", ev)

\* serial.Serial.readline(): the bytes up to and including the first newline,
\* or, when the timeout elapses first, the bytes that have arrived.
SerialReadline(rx) ==
    IF HasNewline(rx) THEN SubSeq(rx, 1, FirstNewline(rx)) ELSE rx

\* serial.Serial.read(size): size bytes, or, when the timeout elapses first,
\* the bytes that have arrived.
SerialRead(rx, size) == SubSeq(rx, 1, Min(size, Len(rx)))

SerialReceive(t, m, override, ev) ==
    IF t.sock = "None" THEN Raise(t, m, "connection")
    ELSE LET prev == m.timeout
             m1 == ApplyOverride(m, override)
             line == SerialReadline(m1.rx)
             m2 == [m1 EXCEPT !.rx = SubSeq(m1.rx, Len(line) + 1, Len(m1.rx))]
             complete == HasNewline(m1.rx)
             body ==
                CASE ~complete /\ ev = "fault" ->
                        [Fail(t, m2, "connection", ev) EXCEPT !.consumed = Len(line)]
                  [] line = <<>> -> Fail(t, m2, "timeout", "timeout")
                  [] OTHER -> [Res(t, m2) EXCEPT
                                  !.val = Strip(Decode(line)),
                                  !.consumed = Len(line),
                                  !.io = IF complete THEN "none" ELSE "timeout"]
         IN  RestoreTimeout(body, override, prev)

SerialReceiveRaw(t, m, count, override, ev) ==
    IF t.sock = "None" THEN Raise(t, m, "connection")
    ELSE LET prev == m.timeout
             m1 == ApplyOverride(m, override)
             data == SerialRead(m1.rx, count)
             m2 == [m1 EXCEPT !.rx = SubSeq(m1.rx, Len(data) + 1, Len(m1.rx))]
             body ==
                CASE Len(data) < count /\ ev = "fault" ->
                        [Fail(t, m2, "connection", ev) EXCEPT !.consumed = Len(data)]
                  [] Len(data) < count ->
                        [Fail(t, m2, "timeout", "timeout") EXCEPT
                                                         !.consumed = Len(data),
                                                         !.reportsGot = TRUE,
                                                         !.got = Len(data)]
                  [] OTHER -> [Res(t, m2) EXCEPT !.val = data,
                                                 !.consumed = Len(data)]
         IN  RestoreTimeout(body, override, prev)

\* ------------------------------------------- Transport, by dynamic dispatch

Connect(t, m, ev) ==
    IF t.kind = "tcp" THEN TcpConnect(t, m, ev) ELSE SerialConnect(t, m, ev)

Disconnect(t, m, ev) ==
    IF t.kind = "tcp" THEN TcpDisconnect(t, m, ev) ELSE SerialDisconnect(t, m, ev)

IsConnected(t, m) ==
    IF t.kind = "tcp" THEN TcpIsConnected(t, m) ELSE SerialIsConnected(t, m)

Send(t, m, data, ev) ==
    IF t.kind = "tcp" THEN TcpSend(t, m, data, ev) ELSE SerialSend(t, m, data, ev)

SendRaw(t, m, data, ev) ==
    IF t.kind = "tcp" THEN TcpSendRaw(t, m, data, ev)
    ELSE SerialSendRaw(t, m, data, ev)

Receive(t, m, override, cuts, ev) ==
    IF t.kind = "tcp" THEN TcpReceive(t, m, override, cuts, ev)
    ELSE SerialReceive(t, m, override, ev)

ReceiveRaw(t, m, count, override, cuts, ev) ==
    IF t.kind = "tcp" THEN TcpReceiveRaw(t, m, count, override, cuts, ev)
    ELSE SerialReceiveRaw(t, m, count, override, ev)

\* -------------------------------------------------------------- ScpiDevice

\* ScpiDevice.command
DeviceCommand(t, m, cmd, ev) == Send(t, m, cmd, ev)

\* The instrument's reply reaches the medium after the command was written.
Reply(m, bs) == [m EXCEPT !.rx = m.rx \o bs]

\* ScpiDevice.query: send, then one line receive.  reply is what the instrument
\* answers between the two.
DeviceQuery(t, m, cmd, override, wev, reply, cuts, rev) ==
    LET s == Send(t, m, cmd, wev)
    IN  IF s.err # "none" THEN s
        ELSE [Receive(s.tp, Reply(s.med, reply), override, cuts, rev)
                 EXCEPT !.wrote = s.wrote]

\* ScpiDevice.__enter__
DeviceEnter(t, m, ev) ==
    IF ~IsConnected(t, m) THEN Connect(t, m, ev) ELSE Res(t, m)

\* What __exit__ returns: a true value would suppress the exception.
DeviceExitReturns == FALSE

\* __exit__ disconnecting only when the block ended normally
DeviceExitSkipsOnError(t, m, exc, ev) ==
    IF exc = "none" THEN Disconnect(t, m, ev) ELSE Raise(t, m, exc)

\* ScpiDevice.__exit__ and the end of the with statement: exc is the error the
\* block raised ("none": it ended normally); err is the error that reaches the
\* caller of the with statement.
DeviceExit(t, m, exc, ev) ==
    LET d == Disconnect(t, m, ev)
    IN  IF d.err # "none" THEN d
        ELSE [d EXCEPT !.err = IF DeviceExitReturns THEN "none" ELSE exc]

\* -------------------------------------------------------------------- Init

\* No call has just returned: nothing was called yet, or the instrument has
\* acted since the last call returned.
NoCall ==
    [op |-> "none", err |-> "none", val |-> <<>>, wrote |-> <<>>, opened |-> FALSE,
     consumed |-> 0, reportsGot |-> FALSE, got |-> 0, io |-> "none",
     preTp |-> [kind |-> "tcp", terminator |-> <<"LF">>, timeout |-> "t1",
                sock |-> "None"],
     preMed |-> NoMedium, preExc |-> "none",
     count |-> 0, override |-> "None", again |-> FALSE, data |-> <<>>,
     calls |-> <<>>]

\* TcpTransport(host, port, timeout) or SerialTransport(port, baudrate, timeout,
\* terminator), and ScpiDevice(transport, auto_connect=False).
Init ==
    /\ \E k \in Kinds, to \in Timeouts :
         \E term \in (IF k = "tcp" THEN {<<"LF">>} ELSE Terminators) :
            tp = [kind |-> k, terminator |-> term, timeout |-> to, sock |-> "None"]
    /\ med = NoMedium
    /\ dev = [scope |-> "out", exc |-> "none"]
    /\ last = NoCall
    /\ sh = NoShared
    /\ tq = NoTyped

\* ----------------------------------------------------------------- actions

\* The record of a call op that ended as r: what it returned or raised, the
\* transport and the medium it found, the error pending in the with-block, its
\* arguments, and whether it repeats the call just before it, which returned;
\* data is the text, and calls the transport calls made by a device operation,
\* that an action records where a claim reads them.
Observe(op, r, count, override) ==
    [op |-> op, err |-> r.err, val |-> r.val, wrote |-> r.wrote,
     opened |-> r.opened, consumed |-> r.consumed, reportsGot |-> r.reportsGot,
     got |-> r.got, io |-> r.io, preTp |-> tp, preMed |-> med,
     preExc |-> dev.exc, count |-> count, override |-> override,
     again |-> (last.op = op /\ last.err = "none"), data |-> <<>>,
     calls |-> <<>>]

\* A call on the transport, made outside a with-block.
Call(op, r, count, override) ==
    /\ dev.scope = "out"
    /\ tp' = r.tp
    /\ med' = r.med
    /\ last' = Observe(op, r, count, override)
    /\ UNCHANGED <<dev, sh, tq>>

\* A call on the device, made inside a with-block: an error it raises leaves
\* the block.
ScopedCall(op, r, override) ==
    /\ dev.scope = "in"
    /\ tp' = r.tp
    /\ med' = r.med
    /\ last' = Observe(op, r, 0, override)
    /\ dev' = IF r.err # "none" THEN [scope |-> "unwinding", exc |-> r.err]
              ELSE dev
    /\ UNCHANGED <<sh, tq>>

CutsOf(rx) == SUBSET (1..(Len(rx) - 1))

DoConnect ==
    \E ev \in OpenEvents(tp) : Call("connect", Connect(tp, med, ev), 0, "None")

DoDisconnect ==
    \E ev \in {"ok", "fault"} :
        Call("disconnect", Disconnect(tp, med, ev), 0, "None")

DoSetTimeout ==
    \E v \in Timeouts : Call("set_timeout", SetTimeout(tp, med, v), 0, "None")

DoSend ==
    \E data \in Cmds, ev \in WriteEvents(tp) :
        Call("send", Send(tp, med, data, ev), 0, "None")

DoSendRaw ==
    \E data \in RawPayloads, ev \in WriteEvents(tp) :
        Call("send_raw", SendRaw(tp, med, data, ev), 0, "None")

DoReceive ==
    \E o \in Overrides, cuts \in CutsOf(med.rx), ev \in EndEvents(tp, med) :
        Call("receive", Receive(tp, med, o, cuts, ev), 0, o)

DoReceiveRaw ==
    \E n \in 0..MaxCount, o \in Overrides, cuts \in CutsOf(med.rx),
       ev \in EndEvents(tp, med) :
        Call("receive_raw", ReceiveRaw(tp, med, n, o, cuts, ev), n, o)

\* with ScpiDevice(...) as d: the block is entered only when __enter__ returns
WithEnter ==
    /\ dev.scope = "out"
    /\ \E ev \in OpenEvents(tp) :
         LET r == DeviceEnter(tp, med, ev)
         IN  /\ tp' = r.tp
             /\ med' = r.med
             /\ last' = Observe("enter", r, 0, "None")
             /\ dev' = IF r.err = "none" THEN [scope |-> "in", exc |-> "none"]
                       ELSE dev
    /\ UNCHANGED <<sh, tq>>

\* d.command(cmd) inside the block
DoCommand ==
    \E cmd \in Cmds, ev \in WriteEvents(tp) :
        ScopedCall("command", DeviceCommand(tp, med, cmd, ev), "None")

\* d.query(cmd, timeout) inside the block
DoQuery ==
    \E cmd \in Cmds, o \in Overrides, wev \in WriteEvents(tp), reply \in Replies,
       rev \in EndEvents(tp, med) :
        /\ Len(med.rx) + Len(reply) <= MaxRx
        /\ ScopedCall("query",
                      DeviceQuery(tp, med, cmd, o, wev, reply, {}, rev), o)

\* The block is left, normally or by the error it raised.
WithExit ==
    /\ dev.scope \in {"in", "unwinding"}
    /\ \E ev \in {"ok", "fault"} :
         LET r == DeviceExit(tp, med, dev.exc, ev)
         IN  /\ tp' = r.tp
             /\ med' = r.med
             /\ last' = Observe("exit", r, 0, "None")
             /\ dev' = [scope |-> "out", exc |-> "none"]
    /\ UNCHANGED <<sh, tq>>

\* The instrument writes a byte.
Arrive ==
    /\ tp.sock # "None"
    /\ dev.scope # "unwinding"
    /\ ~med.peerClosed
    /\ Len(med.rx) < MaxRx
    /\ \E b \in Bytes : med' = [med EXCEPT !.rx = Append(med.rx, b)]
    /\ last' = NoCall
    /\ UNCHANGED <<tp, dev, sh, tq>>

\* The instrument closes the TCP connection.
PeerClose ==
    /\ tp.kind = "tcp"
    /\ tp.sock # "None"
    /\ dev.scope # "unwinding"
    /\ ~med.peerClosed
    /\ med' = [med EXCEPT !.peerClosed = TRUE]
    /\ last' = NoCall
    /\ UNCHANGED <<tp, dev, sh, tq>>

\* The transports, called directly.
Next ==
    \/ DoConnect
    \/ DoDisconnect
    \/ DoSetTimeout
    \/ DoSend
    \/ DoSendRaw
    \/ DoReceive
    \/ DoReceiveRaw
    \/ Arrive
    \/ PeerClose

Spec == Init /\ [][Next]_vars

\* The device used in with-blocks, over a transport the caller may have
\* connected beforehand.
NextScoped ==
    \/ DoConnect
    \/ WithEnter
    \/ DoCommand
    \/ DoQuery
    \/ WithExit
    \/ Arrive
    \/ PeerClose

SpecScoped == Init /\ [][NextScoped]_vars

\* ------------------------------------------- construction and send framing

\* Nothing is constructed yet.
InitSend ==
    /\ tp = NoTransport
    /\ med = NoMedium
    /\ dev = [scope |-> "out", exc |-> "none"]
    /\ last = NoCall
    /\ sh = NoShared
    /\ tq = NoTyped

\* TcpTransport(...) or SerialTransport(...): driver is whether pyserial could
\* be imported.  last.data names the class, last.io the missing driver.
DoConstruct ==
    /\ tp.kind = "none"
    /\ dev.scope = "out"
    /\ \E k \in Kinds, driver \in BOOLEAN, to \in Timeouts :
         \E term \in (IF k = "tcp" THEN {<<"LF">>} ELSE SendTerminators) :
            LET r == IF k = "tcp" THEN TcpInit(tp, med, to)
                     ELSE SerialInit(tp, med, driver, to, term)
            IN  /\ tp' = r.tp
                /\ med' = r.med
                /\ last' = [Observe("construct", r, 0, "None")
                               EXCEPT !.data = <<k>>,
                                      !.io = IF driver THEN "none" ELSE "nodriver"]
    /\ UNCHANGED <<dev, sh, tq>>

\* connect() on the constructed transport
DoOpen ==
    /\ tp.kind # "none"
    /\ DoConnect

\* send(data) on the constructed transport, for every text of the alphabet
DoSendText ==
    /\ tp.kind # "none"
    /\ dev.scope = "out"
    /\ \E data \in SeqsUpTo(TextChars, MaxText), ev \in WriteEvents(tp) :
         LET r == Send(tp, med, data, ev)
         IN  /\ tp' = r.tp
             /\ med' = r.med
             /\ last' = [Observe("send", r, 0, "None") EXCEPT !.data = data]
    /\ UNCHANGED <<dev, sh, tq>>

NextSend ==
    \/ DoConstruct
    \/ DoOpen
    \/ DoSendText

SpecSend == InitSend /\ [][NextSend]_vars

\* --------------------------------- the transport calls of a device operation

\* One call on the transport as a device operation makes it: the method, its
\* arguments, and how it ended.
Made(call, text, count, override, r) ==
    [call |-> call, text |-> text, count |-> count, override |-> override,
     err |-> r.err, r |-> r]

\* ScpiDevice.command: self._transport.send(cmd)
CommandCalls(t, m, cmd, ev) ==
    <<Made("send", cmd, 0, "None", Send(t, m, cmd, ev))>>

\* query sending once more when its send has failed
QueryCallsRetrying(t, m, cmd, override, wev, reply, cuts, rev) ==
    LET s == Send(t, m, cmd, wev)
    IN  IF s.err # "none"
        THEN <<Made("send", cmd, 0, "None", s),
               Made("send", cmd, 0, "None", Send(s.tp, s.med, cmd, wev))>>
        ELSE <<Made("send", cmd, 0, "None", s),
               Made("receive", <<>>, 0, override,
                    Receive(s.tp, Reply(s.med, reply), override, cuts, rev))>>

\* ScpiDevice.query: self._transport.send(cmd), and when that returns,
\* self._transport.receive(timeout=timeout)
QueryCalls(t, m, cmd, override, wev, reply, cuts, rev) ==
    LET s == Send(t, m, cmd, wev)
    IN  IF s.err # "none" THEN <<Made("send", cmd, 0, "None", s)>>
        ELSE <<Made("send", cmd, 0, "None", s),
               Made("receive", <<>>, 0, override,
                    Receive(s.tp, Reply(s.med, reply), override, cuts, rev))>>

\* ScpiDevice.query_raw: self._transport.send(cmd), and when that returns,
\* self._transport.receive_raw(count, timeout=timeout)
QueryRawCalls(t, m, cmd, count, override, wev, reply, cuts, rev) ==
    LET s == Send(t, m, cmd, wev)
    IN  IF s.err # "none" THEN <<Made("send", cmd, 0, "None", s)>>
        ELSE <<Made("send", cmd, 0, "None", s),
               Made("receive_raw", <<>>, count, override,
                    ReceiveRaw(s.tp, Reply(s.med, reply), count, override,
                               cuts, rev))>>

\* What the operation hands to its caller when its transport calls were cs:
\* the outcome of the last of them, after the bytes the send wrote.
Outcome(cs) == [cs[Len(cs)].r EXCEPT !.wrote = cs[1].r.wrote]

\* A call on the device outside a with-block; cs are its transport calls.
DeviceCall(op, cs, cmd, count, override) ==
    /\ dev.scope = "out"
    /\ tp' = Outcome(cs).tp
    /\ med' = Outcome(cs).med
    /\ last' = [Observe(op, Outcome(cs), count, override)
                   EXCEPT !.data = cmd,
                          !.calls = [i \in 1..Len(cs) |->
                                        [call |-> cs[i].call, text |-> cs[i].text,
                                         count |-> cs[i].count,
                                         override |-> cs[i].override,
                                         err |-> cs[i].err]]]
    /\ UNCHANGED <<dev, sh, tq>>

\* d.command(cmd)
CallCommand ==
    \E cmd \in Cmds, ev \in WriteEvents(tp) :
        DeviceCall("command", CommandCalls(tp, med, cmd, ev), cmd, 0, "None")

\* d.query(cmd, timeout)
CallQuery ==
    \E cmd \in Cmds, o \in Overrides, wev \in WriteEvents(tp), reply \in Replies,
       rev \in EndEvents(tp, med) :
        /\ Len(med.rx) + Len(reply) <= MaxRx
        /\ DeviceCall("query", QueryCalls(tp, med, cmd, o, wev, reply, {}, rev),
                      cmd, 0, o)

\* d.query_raw(cmd, count, timeout)
CallQueryRaw ==
    \E cmd \in Cmds, n \in 0..MaxCount, o \in Overrides, wev \in WriteEvents(tp),
       reply \in Replies, rev \in EndEvents(tp, med) :
        /\ Len(med.rx) + Len(reply) <= MaxRx
        /\ DeviceCall("query_raw",
                      QueryRawCalls(tp, med, cmd, n, o, wev, reply, {}, rev),
                      cmd, n, o)

NextCalls ==
    \/ DoConnect
    \/ CallCommand
    \/ CallQuery
    \/ CallQueryRaw

SpecCalls == Init /\ [][NextCalls]_vars

\* ------------------------------------ a transport on the base class's raw I/O

\* bytes.decode("ascii") is defined on bytes below 0x80 only
IsAsciiBytes(bs) == \A i \in 1..Len(bs) : bs[i] # "HI"

\* bytes.decode("ascii") of such bytes: each byte's own character
DecodeStrict(bs) == [i \in 1..Len(bs) |-> bs[i]]

\* Transport.send_raw, inherited: the bytes are decoded and handed to the
\* subclass's send(), which frames them as a line.
TransportSendRaw(t, m, data, ev) ==
    IF ~IsAsciiBytes(data) THEN Raise(t, m, "unicode")
    ELSE Send(t, m, DecodeStrict(data), ev)

\* Transport.receive_raw, inherited: raise NotImplementedError
TransportReceiveRaw(t, m, count, override) == Raise(t, m, "unsupported")

\* send_raw(data) on a transport that takes it from the base class
DoBaseSendRaw ==
    /\ dev.scope = "out"
    /\ \E data \in RawPayloads, ev \in WriteEvents(tp) :
         LET r == TransportSendRaw(tp, med, data, ev)
         IN  /\ tp' = r.tp
             /\ med' = r.med
             /\ last' = [Observe("base_send_raw", r, 0, "None")
                            EXCEPT !.data = data]
    /\ UNCHANGED <<dev, sh, tq>>

\* receive_raw(count, timeout) on a transport that takes it from the base class
DoBaseReceiveRaw ==
    \E n \in 0..MaxCount, o \in Overrides :
        Call("base_receive_raw", TransportReceiveRaw(tp, med, n, o), n, o)

\* A subclass with the connect and send of the transports and the raw I/O of
\* the base class.
NextBase ==
    \/ DoConnect
    \/ DoBaseSendRaw
    \/ DoBaseReceiveRaw
    \/ Arrive

SpecBase == Init /\ [][NextBase]_vars

\* ------------------------------------------------ one transport, two callers

\* The command caller c passes to query().
SharedCmd(c) == IF c = 1 THEN <<"a">> ELSE <<"b">>

\* The instrument answers a command line with the line of its own text.
ReplyTo(cmd) == cmd \o <<"LF">>

\* query() taking a lock other callers hold while they are inside query()
QueryMayStartLocked(c) == \A d \in Callers \ {c} : sh.pc[d] # "sent"

\* query() is send() and then receive(): nothing is acquired before the send,
\* and nothing is held between the two calls.
QueryMayStart(c) == TRUE

\* The commands at the instrument go with the connection they came over.
Pending(r, tx) == IF r.tp.sock = "None" THEN <<>> ELSE tx

\* Caller c enters query(cmd): self._transport.send(cmd); an error ends the
\* call.
QuerySend(c) ==
    /\ dev.scope = "out"
    /\ sh.pc[c] = "idle"
    /\ QueryMayStart(c)
    /\ \E ev \in WriteEvents(tp) :
         LET cmd == SharedCmd(c)
             r == Send(tp, med, cmd, ev)
         IN  /\ tp' = r.tp
             /\ med' = r.med
             /\ last' = [Observe("query_send", r, c, "None") EXCEPT !.data = cmd]
             /\ sh' = IF r.err = "none"
                      THEN [sh EXCEPT !.pc[c] = "sent",
                                      !.tx = Append(sh.tx, cmd)]
                      ELSE [sh EXCEPT !.pc[c] = "done", !.failed = TRUE,
                                      !.tx = Pending(r, sh.tx)]
    /\ UNCHANGED <<dev, tq>>

\* Caller c goes on in query(cmd): return self._transport.receive(timeout);
\* the call is over, with the reply in got or with an error.
QueryReceive(c) ==
    /\ dev.scope = "out"
    /\ sh.pc[c] = "sent"
    /\ \E cuts \in CutsOf(med.rx), ev \in EndEvents(tp, med) :
         LET r == Receive(tp, med, "None", cuts, ev)
         IN  /\ tp' = r.tp
             /\ med' = r.med
             /\ last' = [Observe("query_receive", r, c, "None")
                            EXCEPT !.data = SharedCmd(c)]
             /\ sh' = IF r.err = "none"
                      THEN [sh EXCEPT !.pc[c] = "done", !.got[c] = r.val,
                                      !.tx = Pending(r, sh.tx)]
                      ELSE [sh EXCEPT !.pc[c] = "done", !.failed = TRUE,
                                      !.tx = Pending(r, sh.tx)]
    /\ UNCHANGED <<dev, tq>>

\* The instrument answers the oldest command it has yet to answer.
Instrument ==
    /\ tp.sock # "None"
    /\ ~med.peerClosed
    /\ sh.tx # <<>>
    /\ Len(med.rx) + Len(ReplyTo(Head(sh.tx))) <= MaxRx
    /\ med' = [med EXCEPT !.rx = med.rx \o ReplyTo(Head(sh.tx))]
    /\ sh' = [sh EXCEPT !.tx = Tail(sh.tx)]
    /\ last' = NoCall
    /\ UNCHANGED <<tp, dev, tq>>

NextShared ==
    \/ DoConnect
    \/ \E c \in Callers : QuerySend(c)
    \/ \E c \in Callers : QueryReceive(c)
    \/ Instrument

SpecShared == Init /\ [][NextShared]_vars

\* ------------------------------------------------- queries one after another

\* One program makes the queries of Callers in turn: query() number c is
\* entered only when no other query() is under way.
QueryInTurn(c) ==
    /\ \A d \in Callers \ {c} : sh.pc[d] # "sent"
    /\ QuerySend(c)

NextInTurn ==
    \/ DoConnect
    \/ \E c \in Callers : QueryInTurn(c)
    \/ \E c \in Callers : QueryReceive(c)
    \/ Instrument

SpecInTurn == Init /\ [][NextInTurn]_vars

\* ------------------------------------------ the lines of one TCP/serial stream

\* The lines the instrument writes: an empty one and one with a character.
Lines == {<<"LF">>, <<"a", "LF">>}

\* The instrument writes a whole line; sh.owed keeps the lines written on
\* this connection while every receive on it has returned.  Unread lines have
\* a byte each, so MaxRx bounds them.
WriteLine ==
    /\ tp.sock # "None"
    /\ ~med.peerClosed
    /\ Len(sh.owed) < MaxRx
    /\ \E line \in Lines :
         /\ Len(med.rx) + Len(line) <= MaxRx
         /\ med' = [med EXCEPT !.rx = med.rx \o line]
         /\ sh' = IF sh.failed THEN sh
                  ELSE [sh EXCEPT !.owed = Append(sh.owed, line)]
    /\ last' = NoCall
    /\ UNCHANGED <<tp, dev, tq>>

\* receive() on the stream; last.data is the oldest line not yet returned.
StreamReceive ==
    /\ dev.scope = "out"
    /\ \E cuts \in CutsOf(med.rx), ev \in EndEvents(tp, med) :
         LET r == Receive(tp, med, "None", cuts, ev)
         IN  /\ tp' = r.tp
             /\ med' = r.med
             /\ last' = [Observe("receive", r, 0, "None")
                            EXCEPT !.data = IF sh.owed = <<>> THEN <<>>
                                            ELSE Head(sh.owed)]
             /\ sh' = IF r.err = "none" /\ sh.owed # <<>>
                      THEN [sh EXCEPT !.owed = Tail(sh.owed)]
                      ELSE [sh EXCEPT !.owed = <<>>, !.failed = TRUE]
    /\ UNCHANGED <<dev, tq>>

NextStream ==
    \/ DoConnect
    \/ WriteLine
    \/ StreamReceive

SpecStream == Init /\ [][NextStream]_vars

\* ------------------------------------------- typed queries and check_error

\* Characters of the responses query() returns to the typed queries: digits,
\* a sign, a decimal point, a comma, letters in both cases, a space.
RespChars == {"0", "1", "+", ".", ",", "O", "N", "F", "o", "n", "f", "SP"}

Digits == {"0", "1"}

DigitValue(c) == IF c = "1" THEN 1 ELSE 0

\* str.upper(), one character
UpperChar(c) ==
    CASE c = "o" -> "O"
      [] c = "n" -> "N"
      [] c = "f" -> "F"
      [] c = "a" -> "A"
      [] OTHER -> c

\* str.upper() leaving the text as it is
UpperSkipped(s) == s

\* str.upper()
Upper(s) == [i \in 1..Len(s) |-> UpperChar(s[i])]

\* str.startswith
StartsWith(s, pre) ==
    /\ Len(pre) <= Len(s)
    /\ SubSeq(s, 1, Len(pre)) = pre

\* The numeral int() and float() read: surrounding whitespace and a sign are
\* dropped.
Numeral(s) ==
    LET t == Strip(s)
    IN  IF t # <<>> /\ t[1] = "+" THEN Tail(t) ELSE t

\* int(s) returns: digits only, at least one.
IsIntText(s) ==
    LET n == Numeral(s)
    IN  n # <<>> /\ \A i \in 1..Len(n) : n[i] \in Digits

\* float(s) returns: digits with at most one decimal point, at least one digit.
IsFloatText(s) ==
    LET n == Numeral(s)
    IN  /\ \A i \in 1..Len(n) : n[i] \in Digits \cup {"."}
        /\ \E i \in 1..Len(n) : n[i] \in Digits
        /\ Cardinality({i \in 1..Len(n) : n[i] = "."}) <= 1

\* The number a string of decimal digits denotes.
RECURSIVE DigitsValue(_)
DigitsValue(ds) ==
    IF ds = <<>> THEN 0
    ELSE 10 * DigitsValue(SubSeq(ds, 1, Len(ds) - 1)) + DigitValue(ds[Len(ds)])

\* The digits of a numeral, its decimal point left out.
DigitsOf(n) == SelectSeq(n, LAMBDA c : c \in Digits)

\* The number of digits after the decimal point of a numeral.
ScaleOf(n) ==
    IF \E i \in 1..Len(n) : n[i] = "."
    THEN Len(n) - (CHOOSE i \in 1..Len(n) : n[i] = ".")
    ELSE 0

\* raise ScpiProtocolError(f"Expected {kind}, got {text!r} for {cmd!r}")
ProtocolError(kind, text, cmd) ==
    [NoOutcome EXCEPT !.err = "protocol", !.sent = cmd, !.msgKind = kind,
                      !.msgText = text, !.msgCmd = cmd]

\* an error of query() turned into a protocol error
PropagatedAsProtocol(q, cmd) ==
    [NoOutcome EXCEPT !.err = "protocol", !.sent = cmd, !.msgCmd = cmd]

\* An error of query() leaves the typed query as it is.
Propagated(q, cmd) == [NoOutcome EXCEPT !.err = q.err, !.sent = cmd]

\* query_float(cmd), q being what query(cmd) returned or raised
DeviceQueryFloat(cmd, q) ==
    IF q.err # "none" THEN Propagated(q, cmd)
    ELSE LET resp == q.val
         IN  IF IsFloatText(resp)
             THEN [NoOutcome EXCEPT !.sent = cmd,
                                    !.num = DigitsValue(DigitsOf(Numeral(resp))),
                                    !.scale = ScaleOf(Numeral(resp))]
             ELSE ProtocolError("float", resp, cmd)

\* query_int(cmd)
DeviceQueryInt(cmd, q) ==
    IF q.err # "none" THEN Propagated(q, cmd)
    ELSE LET resp == q.val
         IN  IF IsIntText(resp)
             THEN [NoOutcome EXCEPT !.sent = cmd,
                                    !.num = DigitsValue(Numeral(resp))]
             ELSE ProtocolError("int", resp, cmd)

\* query_bool(cmd): resp is the response stripped and upper-cased, and it is
\* resp the error message quotes.
DeviceQueryBool(cmd, q) ==
    IF q.err # "none" THEN Propagated(q, cmd)
    ELSE LET resp == Upper(Strip(q.val))
         IN  CASE resp \in {<<"1">>, <<"O", "N">>} ->
                    [NoOutcome EXCEPT !.sent = cmd, !.flag = TRUE]
               [] resp \in {<<"0">>, <<"O", "F", "F">>} ->
                    [NoOutcome EXCEPT !.sent = cmd, !.flag = FALSE]
               [] OTHER -> ProtocolError("boolean", resp, cmd)

\* The command check_error() sends, as one symbol.
SystErrCmd == <<":SYST:ERR?">>

\* check_error taking only "0," for no error
IsNoErrorUnsigned(resp) == StartsWith(resp, <<"0", ",">>)

\* resp.startswith("0,") or resp.startswith("+0,")
IsNoError(resp) ==
    StartsWith(resp, <<"0", ",">>) \/ StartsWith(resp, <<"+", "0", ",">>)

\* check_error(), q being what query(":SYST:ERR?") returned or raised
DeviceCheckError(q) ==
    IF q.err # "none" THEN Propagated(q, SystErrCmd)
    ELSE LET resp == q.val
         IN  IF IsNoError(resp)
             THEN [NoOutcome EXCEPT !.sent = SystErrCmd, !.isNone = TRUE]
             ELSE [NoOutcome EXCEPT !.sent = SystErrCmd, !.text = resp]

\* What query() hands back: a response of the transport, or its error.
QueryOutcomes ==
    {[err |-> "none", val |-> v] : v \in SeqsUpTo(RespChars, MaxResp)}
        \cup {[err |-> e, val |-> <<>>] : e \in {"connection", "timeout"}}

\* A device over some transport, the command of the call and what query() is
\* going to hand back.
InitTyped ==
    /\ tp = NoTransport
    /\ med = NoMedium
    /\ dev = [scope |-> "out", exc |-> "none"]
    /\ last = NoCall
    /\ sh = NoShared
    /\ \E cmd \in Cmds, q \in QueryOutcomes :
         tq = [NoTyped EXCEPT !.phase = "ready", !.cmd = cmd, !.q = q]

\* One call on the device ends with the outcome out.
TypedCall(op, out) ==
    /\ tq.phase = "ready"
    /\ tq' = [tq EXCEPT !.phase = "done", !.op = op, !.out = out]
    /\ UNCHANGED <<tp, med, dev, last, sh>>

DoQueryFloat == TypedCall("query_float", DeviceQueryFloat(tq.cmd, tq.q))

DoQueryInt == TypedCall("query_int", DeviceQueryInt(tq.cmd, tq.q))

DoQueryBool == TypedCall("query_bool", DeviceQueryBool(tq.cmd, tq.q))

DoCheckError == TypedCall("check_error", DeviceCheckError(tq.q))

NextTyped ==
    \/ DoQueryFloat
    \/ DoQueryInt
    \/ DoQueryBool
    \/ DoCheckError

SpecTyped == InitTyped /\ [][NextTyped]_vars

\* ------------------------------------------------------------------ claims

\* Whether the byte string bs holds the terminator term.
HasTerminator(bs, term) ==
    \E i \in 1..(Len(bs) - Len(term) + 1) : SubSeq(bs, i, i + Len(term) - 1) = term

\* The bytes the call that just returned found unread in the medium.
PreRx == last.preMed.rx

\* The call that just returned found the transport holding a handle.
WasConnected == last.preTp.sock # "None"

\* C1: when receive() or receive_raw() of a connected TcpTransport observes a
\* zero-length read, the call fails with a connection error and is_connected()
\* is false right after it.
C1_PeerClosedReadDisconnects ==
    (tp.kind = "tcp" /\ last.op \in {"receive", "receive_raw"} /\ last.io = "eof")
        => (last.err = "connection" /\ ~IsConnected(tp, med))

\* C2: a send() or send_raw() on a connected transport whose write fails at the
\* transport level raises a connection error and leaves is_connected() false.
C2_FailedWriteDisconnects ==
    (last.op \in {"send", "send_raw"} /\ WasConnected /\ last.io = "fault")
        => (last.err = "connection" /\ ~IsConnected(tp, med))

\* C3: in every reachable state of either transport the handle is non-null
\* exactly when is_connected() is true.
C3_HandleIffConnected == (tp.sock # "None") <=> IsConnected(tp, med)

\* A serial read has just failed: the handle is kept and the port is open.
C3_Witness ==
    /\ tp.kind = "serial"
    /\ last.op = "receive"
    /\ last.err = "connection"
    /\ tp.sock # "None"
    /\ IsConnected(tp, med)

\* C4: receive() returns only a line that its terminator completed, and when
\* the timeout elapses first, also after some bytes of the line, it fails with
\* a timeout error.
C4_NoIncompleteLine ==
    (last.op = "receive" /\ WasConnected)
        => /\ last.err = "none"
                => HasTerminator(SubSeq(PreRx, 1, last.consumed), tp.terminator)
           /\ last.io = "timeout" => last.err = "timeout"

\* C5: TcpTransport.receive() returns the bytes up to the first newline of the
\* stream, stripped, and nothing that arrived after that newline.
C5_ReturnsFirstLine ==
    (tp.kind = "tcp" /\ last.op = "receive" /\ last.err = "none")
        => last.val = Strip(Decode(SubSeq(PreRx, 1, FirstNewline(PreRx))))

\* C6: a receive_raw(count) that returns yields exactly the next count bytes of
\* the stream, in order, and no receive_raw(count) takes more than count bytes
\* from the stream.
C6_RawExact ==
    (last.op = "receive_raw" /\ WasConnected)
        => /\ last.consumed <= last.count
           /\ last.err = "none"
                => /\ Len(last.val) = last.count
                   /\ last.val = SubSeq(PreRx, 1, last.count)
                   /\ med.rx = SubSeq(PreRx, last.count + 1, Len(PreRx))

\* A receive_raw(2) on a socket holding three bytes has returned.
C6_Witness ==
    /\ tp.kind = "tcp"
    /\ last.op = "receive_raw"
    /\ last.err = "none"
    /\ last.count = 2
    /\ Len(PreRx) = 3
    /\ Len(med.rx) = 1

\* C7: the timeout error of a receive_raw(count) that obtained fewer than count
\* bytes reports the number of bytes obtained.
C7_TimeoutReportsGot ==
    (last.op = "receive_raw" /\ last.err = "timeout")
        => (last.reportsGot /\ last.got = last.consumed)

\* C8: after a receive() or receive_raw() that was given a timeout, a transport
\* that is still connected has the medium timeout it had before the call,
\* however the call ended.
C8_OverrideRestored ==
    (last.op \in {"receive", "receive_raw"} /\ last.override # "None"
        /\ WasConnected /\ IsConnected(tp, med))
        => (med.timeout = last.preMed.timeout /\ tp.timeout = last.preTp.timeout)

\* A receive(timeout=t2) on a medium whose timeout is t1 has timed out.
C8_Witness ==
    /\ last.op = "receive"
    /\ last.override = "t2"
    /\ last.preMed.timeout = "t1"
    /\ last.err = "timeout"
    /\ IsConnected(tp, med)

\* C9: entering a with-block connects the transport unless it is connected
\* already; leaving it, normally or by an error raised inside, leaves the
\* transport disconnected, and that error reaches the caller.
C9_ScopedUse ==
    /\ (last.op = "enter" /\ last.err = "none")
            => /\ IsConnected(tp, med)
               /\ last.opened <=> ~WasConnected
    /\ dev.scope = "in" => last.op # "exit"
    /\ last.op = "exit"
            => /\ ~IsConnected(tp, med)
               /\ last.err = last.preExc
               /\ dev.scope = "out"

\* A block over a connected transport was left by a timeout error raised in it.
C9_Witness ==
    /\ last.op = "exit"
    /\ last.preExc = "timeout"
    /\ WasConnected
    /\ last.err = "timeout"

\* C10: a connect() on a connected transport, as one that follows a connect()
\* that returned, raises nothing, opens no medium and changes nothing; a
\* disconnect() never raises and leaves the transport disconnected, and one
\* that follows a disconnect() changes nothing.
C10_Idempotent ==
    /\ (last.op = "connect" /\ last.again) => WasConnected
    /\ (last.op = "connect" /\ WasConnected)
            => /\ last.err = "none"
               /\ ~last.opened
               /\ tp = last.preTp
               /\ med = last.preMed
    /\ last.op = "disconnect"
            => /\ last.err = "none"
               /\ tp.sock = "None"
               /\ ~IsConnected(tp, med)
    /\ (last.op = "disconnect" /\ last.again)
            => /\ tp = last.preTp
               /\ med = last.preMed

\* A connect() has followed a connect() that returned.
C10_Witness ==
    /\ last.op = "connect"
    /\ last.again
    /\ last.err = "none"
    /\ IsConnected(tp, med)

\* C11: a transport just constructed is disconnected, a connect() that returns
\* leaves is_connected() true and a disconnect() leaves it false, after any
\* sequence of calls and failures.
C11_Lifecycle ==
    /\ Init => ~IsConnected(tp, med)
    /\ (last.op = "connect" /\ last.err = "none") => IsConnected(tp, med)
    /\ last.op = "disconnect" => ~IsConnected(tp, med)

\* A disconnect() on a connected transport has returned.
C11_Witness ==
    /\ last.op = "disconnect"
    /\ WasConnected
    /\ IsConnected(last.preTp, last.preMed)
    /\ ~IsConnected(tp, med)

\* C17: when TcpTransport.connect() cannot open the socket (refused,
\* unreachable, timed out) it raises the connection error, the transport stays
\* disconnected, and a later connect() opens the socket when it can.
C17_ConnectFailure ==
    (last.op = "connect" /\ last.preTp.kind = "tcp"
        /\ last.io \in {"timeout", "fault"}) =>
        /\ last.err = "connection"
        /\ tp.sock = "None"
        /\ ~IsConnected(tp, med)
        /\ tp = last.preTp
        /\ LET again == Connect(tp, med, "ok")
           IN  /\ again.err = "none"
               /\ again.opened
               /\ IsConnected(again.tp, again.med)

\* A TCP connect() has timed out.
C17_Witness ==
    /\ last.op = "connect"
    /\ last.preTp.kind = "tcp"
    /\ last.io = "timeout"
    /\ last.err = "connection"

\* C18: on a disconnected transport send, send_raw, receive and receive_raw
\* raise the connection error, touch no medium, and leave the transport as it
\* was: disconnected, with the timeout it was given.
C18_DisconnectedCalls ==
    (last.op \in {"send", "send_raw", "receive", "receive_raw"}
        /\ ~IsConnected(last.preTp, last.preMed)) =>
        /\ last.err = "connection"
        /\ last.io = "none"
        /\ last.wrote = <<>>
        /\ last.consumed = 0
        /\ ~last.opened
        /\ tp = last.preTp
        /\ med = last.preMed
        /\ ~IsConnected(tp, med)

\* Each of the four calls has been made on a disconnected serial transport
\* (here receive_raw with a timeout override), as on a TCP one.
C18_Witness ==
    /\ last.op = "receive_raw"
    /\ last.override # "None"
    /\ last.count > 0
    /\ ~IsConnected(last.preTp, last.preMed)
    /\ last.err = "connection"

\* C12: send(s) on a connected transport writes s followed by the terminator
\* when s does not end with the terminator and s alone when it does: a newline
\* for TCP, the configured terminator for serial.  (s is ASCII text and the
\* write goes through.)
C12_SendFraming ==
    (last.op = "send" /\ IsConnected(last.preTp, last.preMed)) =>
        LET s == last.data
            term == IF last.preTp.kind = "tcp" THEN <<"LF">>
                    ELSE last.preTp.terminator
        IN  /\ (IsAscii(s) /\ last.io = "none") => last.err = "none"
            /\ (last.err = "none" /\ ~EndsWith(s, term)) =>
                    last.wrote = Encode(s) \o Encode(term)
            /\ (last.err = "none" /\ EndsWith(s, term)) =>
                    last.wrote = Encode(s)

\* A text that ends with the two-byte terminator of a serial transport has
\* been sent and written.
C12_Witness ==
    /\ last.op = "send"
    /\ last.err = "none"
    /\ last.preTp.kind = "serial"
    /\ last.preTp.terminator = <<"CR", "LF">>
    /\ last.data = <<"CR", "LF">>
    /\ last.wrote = <<"CR", "LF">>

\* A text that does not end with the terminator has been sent and written.
C12_WitnessAppended ==
    /\ last.op = "send"
    /\ last.err = "none"
    /\ last.preTp.kind = "tcp"
    /\ last.data = <<"a", "CR">>
    /\ last.wrote = <<"a", "CR", "LF">>

C13_NoLock ==
    \A c \in Callers :
        /\ sh.pc[c] = "idle" => ENABLED QuerySend(c)
        /\ sh.pc[c] = "sent" => ENABLED QueryReceive(c)

\* No call has failed, caller 1 is still inside query() waiting for its
\* reply, and caller 2's query() has returned the reply to caller 1's command.
C13_Witness ==
    /\ ~sh.failed
    /\ last.op = "query_receive"
    /\ last.count = 2
    /\ last.err = "none"
    /\ sh.pc[1] = "sent"
    /\ sh.got[2] = Strip(Decode(ReplyTo(SharedCmd(1))))
    /\ sh.got[2] # Strip(Decode(ReplyTo(SharedCmd(2))))

\* A typed query has ended, having got a response from query().
TypedDone(ops) == tq.phase = "done" /\ tq.op \in ops /\ tq.q.err = "none"

\* C14: when query_float, query_int or query_bool cannot parse the response,
\* the protocol error names the command sent and the response text exactly as
\* the transport returned it.
C14_ErrorNamesLiteral ==
    (TypedDone({"query_float", "query_int", "query_bool"})
        /\ tq.out.err = "protocol") =>
        /\ tq.out.msgCmd = tq.cmd
        /\ tq.out.msgText = tq.q.val

\* C15: query_bool returns True exactly when the response, trimmed and read
\* without regard to case, is "1" or "ON", False exactly when it is "0" or
\* "OFF", and raises the protocol error for every other response.
SameChar(c, d) ==
    \/ c = d
    \/ {c, d} \in {{"o", "O"}, {"n", "N"}, {"f", "F"}}

Reads(s, word) ==
    LET t == Strip(s)
    IN  Len(t) = Len(word) /\ \A i \in 1..Len(t) : SameChar(t[i], word[i])

C15_BoolExact ==
    TypedDone({"query_bool"}) =>
        LET r == tq.q.val
            isTrue == Reads(r, <<"1">>) \/ Reads(r, <<"O", "N">>)
            isFalse == Reads(r, <<"0">>) \/ Reads(r, <<"O", "F", "F">>)
        IN  /\ isTrue <=> (tq.out.err = "none" /\ tq.out.flag)
            /\ isFalse <=> (tq.out.err = "none" /\ ~tq.out.flag)
            /\ (~isTrue /\ ~isFalse) <=> tq.out.err = "protocol"
            /\ tq.out.err \in {"none", "protocol"}

\* query_bool has read " on" as True.
C15_Witness ==
    /\ TypedDone({"query_bool"})
    /\ tq.q.val = <<"SP", "o", "N">>
    /\ tq.out.err = "none"
    /\ tq.out.flag

\* C16: check_error() sends ":SYST:ERR?" and returns None exactly when the
\* response begins with "0," or "+0,"; it returns every other response as it
\* is.
C16_CheckError ==
    TypedDone({"check_error"}) =>
        LET r == tq.q.val
            zero == \/ (Len(r) >= 2 /\ r[1] = "0" /\ r[2] = ",")
                    \/ (Len(r) >= 3 /\ r[1] = "+" /\ r[2] = "0" /\ r[3] = ",")
        IN  /\ tq.out.sent = <<":SYST:ERR?">>
            /\ tq.out.err = "none"
            /\ zero <=> tq.out.isNone
            /\ ~zero => tq.out.text = r

\* check_error() has returned None for "+0,".
C16_Witness ==
    /\ TypedDone({"check_error"})
    /\ tq.q.val = <<"+", "0", ",">>
    /\ tq.out.isNone

\* C19: on a connected transport that takes raw I/O from the Transport base
\* class, send_raw and receive_raw both fail as unsupported, and nothing is
\* written or read in their name.
C19_RawUnsupported ==
    (last.op \in {"base_send_raw", "base_receive_raw"}
        /\ IsConnected(last.preTp, last.preMed)) =>
        /\ last.err = "unsupported"
        /\ last.wrote = <<>>
        /\ last.consumed = 0

\* A typed query has ended.
TypedEnded == tq.phase = "done" /\ tq.op \in {"query_float", "query_int", "query_bool"}

\* C21: a typed query raises the protocol error only when query() returned a
\* response, and never for a response of decimal digits; a connection or
\* timeout error that query() raised reaches the caller as that same error,
\* and no value is returned in its place.
C21_ErrorsPropagate ==
    TypedEnded =>
        /\ tq.out.err = "protocol" => tq.q.err = "none"
        /\ tq.q.err # "none" =>
                /\ tq.out.err = tq.q.err
                /\ tq.out.msgKind = "none"
                /\ ~tq.out.flag /\ tq.out.num = 0
        /\ tq.out.err \in {"none", "protocol", tq.q.err}
        /\ (tq.q.err = "none" /\ tq.op \in {"query_float", "query_int"}
                /\ tq.q.val # <<>>
                /\ \A i \in 1..Len(tq.q.val) : tq.q.val[i] \in {"0", "1"}) =>
                tq.out.err = "none"

\* query_int has ended in the timeout error that query() raised.
C21_Witness ==
    /\ TypedEnded
    /\ tq.op = "query_int"
    /\ tq.q.err = "timeout"
    /\ tq.out.err = "timeout"

\* The transport call a device operation begins with: one send of its command.
SendsFirst == last.calls # <<>> /\ last.calls[1].call = "send"
                 /\ last.calls[1].text = last.data

\* C22: command(c) makes one send and nothing else; query(c) makes one send
\* and, when the send returned, one receive; query_raw(c, n) makes one send
\* and, when the send returned, one receive_raw(n); when the send fails
\* nothing follows it, and what the failed send raised is what the operation
\* raises.
C22_CallSequence ==
    /\ last.op = "command" => (SendsFirst /\ Len(last.calls) = 1)
    /\ last.op \in {"query", "query_raw"} =>
        /\ SendsFirst
        /\ Len(last.calls) = (IF last.calls[1].err = "none" THEN 2 ELSE 1)
        /\ Len(last.calls) = 2 =>
            /\ last.calls[2].call =
                    (IF last.op = "query" THEN "receive" ELSE "receive_raw")
            /\ last.calls[2].count = last.count
            /\ last.calls[2].override = last.override
    /\ last.op \in {"command", "query", "query_raw"} =>
        /\ last.err = last.calls[Len(last.calls)].err
        /\ last.calls[1].err # "none" => (med.rx = last.preMed.rx \/ med = NoMedium)
        /\ last.calls[1].err = "none" =>
                HasTerminator(last.wrote, last.preTp.terminator)

\* A query whose send failed has ended with that error, and one whose send
\* returned has gone on to its receive.
C22_Witness ==
    /\ last.op = "query"
    /\ IsConnected(last.preTp, last.preMed)
    /\ Len(last.calls) = 1
    /\ last.calls[1].err = "timeout"
    /\ last.err = "timeout"

\* C23: while every TcpTransport.receive() on a connection has returned, the
\* k-th of them returns the k-th line the instrument wrote, stripped, however
\* the bytes were grouped into chunks.
C23_LinesInOrder ==
    (last.op = "receive" /\ last.preTp.kind = "tcp" /\ last.err = "none"
        /\ ~sh.failed) =>
        /\ last.data # <<>>
        /\ last.val = Strip(Decode(last.data))

\* C24: when queries are made one after another on a connected transport,
\* the value a query(c) returns is the reply the instrument produced for c,
\* also after an earlier query timed out and its reply arrived late.
C24_ReplyToSameCommand ==
    (last.op = "query_receive" /\ last.err = "none") =>
        last.val = Strip(Decode(ReplyTo(last.data)))

====
